---- MODULE Spec2Model ----
(***************************************************************************)
(* Model of debos' image-partition action (image_partition_action.go):     *)
(* Verify, PreMachine / PreNoMachine, Run and Cleanup of                   *)
(* ImagePartitionAction, with the artifact generators generateFSTab and    *)
(* generateKernelRoot and the device path resolver getPartitionDevice.     *)
(*                                                                         *)
(* Go strings whose bytes the code inspects or concatenates are modelled   *)
(* as sequences of one-character strings; errors are tuples, the nil error *)
(* being the empty tuple.  Run is modelled one external operation per      *)
(* step; Verify, the provisioning hooks and Cleanup, which have no early   *)
(* exit between operations that matters, are one step each.  The results   *)
(* the code drops (mkfs, unmount, detach) are still drawn both ways: they  *)
(* show in the host state (mkfsFailed, mounted, loopAttached).             *)
(***************************************************************************)
EXTENDS Integers, Sequences, FiniteSets, TLC

VARIABLES
    Partitions,     \* i.Partitions: the backing array shared by every copy of the action
    Mountpoints,    \* i.Mountpoints; part is an index into Partitions, 0 for a nil pointer
    PartitionType,  \* i.PartitionType
    ImageSize,      \* i.ImageSize
    size,           \* i.size
    usingLoop,      \* i.usingLoop of the action the driver holds
    context,        \* the shared DebosContext
    machineArgs,    \* *args of PreMachine
    loopAttached,   \* host state: the loop device losetup attached is still attached
    mkfsFailed,     \* host state: some mkfs command of Run has failed
    mounted,        \* host state: the mounts made by this action, oldest first
    pc,             \* position of the lifecycle driver / of the running handler
    idx,            \* index of the partition (Run) or mountpoint (Run, Cleanup) loop
    fidx,           \* index of the flag loop of Run
    ret,            \* error returned by each handler that has returned
    log,            \* trace of the external operations and generator calls, oldest first
    gens            \* trace of the artifact generator calls, oldest first

vars ==
    << Partitions, Mountpoints, PartitionType, ImageSize, size, usingLoop, context,
       machineArgs, loopAttached, mkfsFailed, mounted, pc, idx, fidx, ret, log, gens >>

(***************************************************************************)
(* Bounds of the model.                                                    *)
(***************************************************************************)
MaxParts ==
    2

MaxMounts ==
    2

MaxCalls ==
    3

(***************************************************************************)
(* String literals.                                                        *)
(***************************************************************************)
sEmpty == << >>
sRoot == <<"r", "o", "o", "t">>
sEfi == <<"e", "f", "i">>
sData == <<"d", "a", "t", "a">>
sExt4 == <<"e", "x", "t", "4">>
sFat32 == <<"f", "a", "t", "3", "2">>
sVfat == <<"v", "f", "a", "t">>
sMkfsDot == <<"m", "k", "f", "s", ".">>
sMkfsVfat == <<"m", "k", "f", "s", ".", "v", "f", "a", "t">>
sBoot == <<"b", "o", "o", "t">>
sEsp == <<"e", "s", "p">>
sRo == <<"r", "o">>
sNoatime == <<"n", "o", "a", "t", "i", "m", "e">>
sDefaults == <<"d", "e", "f", "a", "u", "l", "t", "s">>
sSlash == <<"/">>
sSlashBoot == <<"/", "b", "o", "o", "t">>
sMnt == <<"m", "n", "t">>
sScratch == <<"/", "s", "c", "r">>
sDevVda == <<"/", "d", "e", "v", "/", "v", "d", "a">>
sLoop0 == <<"/", "d", "e", "v", "/", "l", "o", "o", "p", "0">>
sGpt == <<"g", "p", "t">>
sMsdos == <<"m", "s", "d", "o", "s">>
sPrimary == <<"p", "r", "i", "m", "a", "r", "y">>
sPct0 == <<"0", "%">>
sPct100 == <<"1", "0", "0", "%">>
sUuidEq == <<"U", "U", "I", "D", "=">>
sRootUuidEq == <<"r", "o", "o", "t", "=", "U", "U", "I", "D", "=">>
sOld == <<"o", "l", "d">>
sTab == <<"\t">>
sNl == <<"\n">>
sTail == <<"\t", "0", "\t", "0", "\n">>

NoErr == << >>

(***************************************************************************)
(* Library functions the code calls.                                       *)
(***************************************************************************)
Digits == <<"0", "1", "2", "3", "4", "5", "6", "7", "8", "9">>

IsDigit(c) == \E d \in 1..10 : Digits[d] = c

\* fmt.Sprintf("%d", n) for n >= 0
RECURSIVE Itoa(_)
Itoa(n) ==
    IF n < 10 THEN <<Digits[n + 1]>> ELSE Itoa(n \div 10) \o <<Digits[(n % 10) + 1]>>

IsSpace(c) == c \in {" ", "\t", "\n", "\r"}

RECURSIVE TrimLeft(_)
TrimLeft(s) ==
    IF s # << >> /\ IsSpace(Head(s)) THEN TrimLeft(Tail(s)) ELSE s

RECURSIVE TrimRight(_)
TrimRight(s) ==
    IF s # << >> /\ IsSpace(s[Len(s)]) THEN TrimRight(SubSeq(s, 1, Len(s) - 1)) ELSE s

\* strings.TrimSpace
TrimSpace(s) == TrimRight(TrimLeft(s))

\* strings.Join(elems, sep)
RECURSIVE StringsJoin(_, _)
StringsJoin(elems, sep) ==
    IF elems = << >> THEN << >>
    ELSE IF Len(elems) = 1 THEN elems[1]
    ELSE elems[1] \o sep \o StringsJoin(Tail(elems), sep)

\* path.Clean, for paths without "." and ".." elements
SqueezeSlashes(s) ==
    LET kept == SelectSeq([i \in 1..Len(s) |-> i],
                          LAMBDA i : ~(i < Len(s) /\ s[i] = "/" /\ s[i + 1] = "/"))
    IN  [j \in 1..Len(kept) |-> s[kept[j]]]

PathClean(s) ==
    IF s = << >> THEN <<".">>
    ELSE LET q == SqueezeSlashes(s)
         IN  IF Len(q) > 1 /\ q[Len(q)] = "/" THEN SubSeq(q, 1, Len(q) - 1) ELSE q

\* path.Join(a, b): empty elements are ignored, the result is cleaned
PathJoin(a, b) ==
    IF a = << >> /\ b = << >> THEN << >>
    ELSE IF a = << >> THEN PathClean(b)
    ELSE IF b = << >> THEN PathClean(a)
    ELSE PathClean(a \o <<"/">> \o b)

\* units.FromHumanSize on the size strings of the model: [size, err]
FromHumanSize(s) ==
    IF s = "1GiB" THEN [size |-> 1073741824, err |-> NoErr]
    ELSE IF s = "4MB" THEN [size |-> 4000000, err |-> NoErr]
    ELSE [size |-> -1, err |-> <<"invalid size", s>>]

(***************************************************************************)
(* Pure parts of the action.                                               *)
(***************************************************************************)
\* faulty variant of getPartitionDevice: the suffix is always <number>
getPartitionDeviceNoInfix(number, ctx) ==
    ctx.image \o Itoa(number)

\* getPartitionDevice: the partition suffix is p<number> when the image device
\* ends in a digit, else <number>
getPartitionDevice(number, ctx) ==
    LET last == ctx.image[Len(ctx.image)]
    IN  IF IsDigit(last)
        THEN ctx.image \o <<"p">> \o Itoa(number)
        ELSE ctx.image \o Itoa(number)

\* the cmdline formatPartition builds for partition p on device path
MkfsCmdline(p, path) ==
    IF p.FS = sFat32
    THEN <<sMkfsVfat, <<"-", "n">>, p.Name, path>>
    ELSE <<sMkfsDot \o p.FS, <<"-", "L">>, p.Name, path>>

\* the name Run gives a partition in mkpart
MkpartName(ptype, p) ==
    IF ptype = sGpt THEN p.Name ELSE sPrimary

\* faulty variant of MountFS: the tag of the partition is passed as it is
MountFSUnmapped(fs) ==
    fs

\* the filesystem type Run passes to mount
MountFS(fs) ==
    IF fs = sFat32 THEN sVfat ELSE fs

\* faulty variant of FSTabOptions: the declared options alone
FSTabOptionsDeclaredOnly(m) ==
    m.Options

\* the options generateFSTab writes for mountpoint m
FSTabOptions(m) ==
    <<sDefaults>> \o m.Options

\* the line generateFSTab writes for mountpoint m bound to partition p
FSTabLine(m, p) ==
    sUuidEq \o p.FSUUID \o sTab \o m.Mountpoint \o sTab \o p.FS \o sTab
        \o StringsJoin(FSTabOptions(m), <<",">>) \o sTail

\* the loop of generateFSTab from mountpoint k on, buf being the buffer so far
RECURSIVE FSTabLoop(_, _, _, _)
FSTabLoop(mps, parts, k, buf) ==
    IF k > Len(mps) THEN [buf |-> buf, err |-> NoErr]
    ELSE LET m == mps[k]
             p == parts[m.part]
         IN  IF p.FSUUID = sEmpty
             THEN [buf |-> buf, err |-> <<"Missing fs UUID for partition", p.Name>>]
             ELSE FSTabLoop(mps, parts, k + 1, buf \o FSTabLine(m, p))

\* faulty variant of FSTabReset: the buffer is not reset
FSTabResetMissing(buf) ==
    buf

\* context.imageFSTab.Reset()
FSTabReset(buf) ==
    << >>

\* generateFSTab: [context, err]
generateFSTab(mps, parts, ctx) ==
    LET r == FSTabLoop(mps, parts, 1, FSTabReset(ctx.imageFSTab))
    IN  [context |-> [ctx EXCEPT !.imageFSTab = r.buf], err |-> r.err]

\* faulty variant of RootMountpoint: the loop does not break at the first match
RootMountpointLast(mps) ==
    LET roots == {k \in 1..Len(mps) : mps[k].Mountpoint = sSlash}
    IN  IF roots = {} THEN 0 ELSE CHOOSE k \in roots : \A j \in roots : k >= j

\* the mountpoint generateKernelRoot stops at: the first one mounted on "/", 0 if none
RootMountpoint(mps) ==
    LET roots == {k \in 1..Len(mps) : mps[k].Mountpoint = sSlash}
    IN  IF roots = {} THEN 0 ELSE CHOOSE k \in roots : \A j \in roots : k <= j

\* faulty variant of generateKernelRoot: the kernel root is cleared before the loop
generateKernelRootClearing(mps, parts, ctx) ==
    LET k == RootMountpoint(mps)
        cleared == [ctx EXCEPT !.imageKernelRoot = sEmpty]
    IN  IF k = 0 THEN [context |-> cleared, err |-> NoErr]
        ELSE IF parts[mps[k].part].FSUUID = sEmpty
        THEN [context |-> cleared, err |-> <<"No fs UUID for root partition">>]
        ELSE [context |-> [ctx EXCEPT !.imageKernelRoot =
                               sRootUuidEq \o parts[mps[k].part].FSUUID],
              err |-> NoErr]

\* generateKernelRoot: [context, err]
generateKernelRoot(mps, parts, ctx) ==
    LET k == RootMountpoint(mps)
    IN  IF k = 0 THEN [context |-> ctx, err |-> NoErr]
        ELSE IF parts[mps[k].part].FSUUID = sEmpty
        THEN [context |-> ctx, err |-> <<"No fs UUID for root partition">>]
        ELSE [context |-> [ctx EXCEPT !.imageKernelRoot =
                               sRootUuidEq \o parts[mps[k].part].FSUUID],
              err |-> NoErr]

(***************************************************************************)
(* Verify.                                                                 *)
(***************************************************************************)
\* faulty variant of PartitionNumber: num starts at 0
PartitionNumberFromZero(k) ==
    k - 1

\* faulty variant of PartitionNumber: num is not incremented
PartitionNumberStuck(k) ==
    1

\* the number Verify gives the k-th declared partition: num starts at 1 and is
\* incremented once per partition
PartitionNumber(k) ==
    1 + (k - 1)

\* faulty variant of PartitionErr: only the name is checked
PartitionErrNameOnly(p) ==
    IF p.Name = sEmpty THEN <<"Partition without a name">> ELSE NoErr

\* the checks Verify makes of one partition
PartitionErr(p) ==
    IF p.Name = sEmpty THEN <<"Partition without a name">>
    ELSE IF p.Start = sEmpty THEN <<"Partition missing start", p.Name>>
    ELSE IF p.End = sEmpty THEN <<"Partition missing end", p.Name>>
    ELSE IF p.FS = sEmpty THEN <<"Partition missing fs type", p.Name>>
    ELSE NoErr

\* index of the first element of 1..n satisfying bad, n + 1 if there is none
FirstBad(n, bad(_)) ==
    IF \E k \in 1..n : bad(k)
    THEN CHOOSE k \in 1..n : bad(k) /\ \A j \in 1..(k - 1) : ~bad(j)
    ELSE n + 1

\* the partition loop of Verify: partitions up to the first bad one are numbered
VerifyPartitions(parts) ==
    LET bad(k) == PartitionErr(parts[k]) # NoErr
        stop == FirstBad(Len(parts), bad)
    IN  [Partitions |-> [k \in 1..Len(parts) |->
                            IF k <= stop
                            THEN [parts[k] EXCEPT !.number = PartitionNumber(k)]
                            ELSE parts[k]],
         err |-> IF stop <= Len(parts) THEN PartitionErr(parts[stop]) ELSE NoErr]

\* faulty variant of ResolvePart: the inner loop does not break at the first match
ResolvePartLast(m, parts) ==
    LET hits == {k \in 1..Len(parts) : parts[k].Name = m.Partition}
    IN  IF hits = {} THEN m.part ELSE CHOOSE k \in hits : \A j \in hits : k >= j

\* the inner loop of Verify: the partition m.part ends up pointing to
ResolvePart(m, parts) ==
    LET hits == {k \in 1..Len(parts) : parts[k].Name = m.Partition}
    IN  IF hits = {} THEN m.part ELSE CHOOSE k \in hits : \A j \in hits : k <= j

\* faulty variant of MountpointErr: the nil check is missing
MountpointErrUnchecked(m) ==
    NoErr

\* the error Verify returns for a mountpoint whose part is still nil
MountpointErr(m) ==
    IF m.part = 0 THEN <<"Couldn't fount partition for", m.Mountpoint>> ELSE NoErr

\* the mountpoint loop of Verify: mountpoints up to the first unresolved one are bound
VerifyMountpoints(mps, parts) ==
    LET bound(k) == [mps[k] EXCEPT !.part = ResolvePart(mps[k], parts)]
        bad(k) == MountpointErr(bound(k)) # NoErr
        stop == FirstBad(Len(mps), bad)
    IN  [Mountpoints |-> [k \in 1..Len(mps) |-> IF k <= stop THEN bound(k) ELSE mps[k]],
         err |-> IF stop <= Len(mps) THEN MountpointErr(bound(stop)) ELSE NoErr]

\* Verify: [Partitions, Mountpoints, size, err]
VerifyResult(parts, mps, isize, oldsize) ==
    LET vp == VerifyPartitions(parts)
        vm == VerifyMountpoints(mps, vp.Partitions)
        sz == FromHumanSize(isize)
    IN  IF vp.err # NoErr
        THEN [Partitions |-> vp.Partitions, Mountpoints |-> mps, size |-> oldsize,
              err |-> vp.err]
        ELSE IF vm.err # NoErr
        THEN [Partitions |-> vp.Partitions, Mountpoints |-> vm.Mountpoints,
              size |-> oldsize, err |-> vm.err]
        ELSE IF sz.err # NoErr
        THEN [Partitions |-> vp.Partitions, Mountpoints |-> vm.Mountpoints,
              size |-> oldsize, err |-> <<"Failed to parse image size", isize>>]
        ELSE [Partitions |-> vp.Partitions, Mountpoints |-> vm.Mountpoints,
              size |-> sz.size, err |-> NoErr]

(***************************************************************************)
(* The recipes the model draws its input from.                             *)
(***************************************************************************)
SeqsUpTo(S, n) ==
    UNION {[1..k -> S] : k \in 0..n}

NewPartition(name, start, end, fs, flags) ==
    [number |-> 0, Name |-> name, Start |-> start, End |-> end, FS |-> fs,
     Flags |-> flags, FSUUID |-> sEmpty]

PartitionPool ==
    { NewPartition(sRoot, sPct0, sPct100, sExt4, << >>),
      NewPartition(sEfi, sPct0, sPct100, sFat32, <<sBoot, sEsp>>),
      NewPartition(sEmpty, sPct0, sPct100, sExt4, << >>),
      NewPartition(sRoot, sEmpty, sPct100, sExt4, << >>),
      NewPartition(sRoot, sPct0, sEmpty, sExt4, << >>),
      NewPartition(sRoot, sPct0, sPct100, sEmpty, << >>) }

NewMountpoint(mountpoint, partition, options) ==
    [Mountpoint |-> mountpoint, Partition |-> partition, Options |-> options, part |-> 0]

MountpointPool ==
    { NewMountpoint(sSlash, sRoot, << >>),
      NewMountpoint(sSlash, sEfi, <<sRo>>),
      NewMountpoint(sSlashBoot, sEfi, <<sNoatime, sRo>>),
      NewMountpoint(sSlashBoot, sData, << >>) }

\* the table type of a recipe: GPT for the recipes that declare an EFI system
\* partition, the legacy table for the others
TableTypeOf(parts) ==
    IF \E k \in 1..Len(parts) : parts[k].Name = sEfi THEN sGpt ELSE sMsdos

ImageSizePool ==
    {"1GiB", "junk"}

\* the DebosContext the pipeline hands to the action
NewContext ==
    [image |-> sEmpty, scratchdir |-> sScratch, imageMntDir |-> sEmpty,
     imageFSTab |-> sEmpty, imageKernelRoot |-> sEmpty]

Pending == <<"pending">>

Init ==
    /\ Partitions \in SeqsUpTo(PartitionPool, MaxParts)
    /\ Mountpoints \in SeqsUpTo(MountpointPool, MaxMounts)
    /\ PartitionType = TableTypeOf(Partitions)
    /\ ImageSize \in ImageSizePool
    /\ size = 0
    /\ usingLoop = FALSE
    /\ context = NewContext
    /\ machineArgs = << >>
    /\ loopAttached = FALSE
    /\ mkfsFailed = FALSE
    /\ mounted = << >>
    /\ pc = "Verify"
    /\ idx = 0
    /\ fidx = 0
    /\ ret = [Verify |-> Pending, Pre |-> Pending, Run |-> Pending, Cleanup |-> Pending]
    /\ log = << >>
    /\ gens = << >>

(***************************************************************************)
(* The lifecycle driver: Verify, then one of PreMachine and PreNoMachine,  *)
(* then Run, then Cleanup; it stops at the first error of Verify or of the *)
(* provisioning hook, and runs Cleanup on every exit of Run.               *)
(***************************************************************************)
DriverNext(handler, err) ==
    CASE handler = "Verify" -> IF err = NoErr THEN "Pre" ELSE "Stopped"
      [] handler = "Pre" -> IF err = NoErr THEN "Run" ELSE "Stopped"
      [] handler = "Run" -> "Cleanup"
      [] handler = "Cleanup" -> "Done"

Return(handler, err) ==
    /\ ret' = [ret EXCEPT ![handler] = err]
    /\ pc' = DriverNext(handler, err)

\* one external operation attempted: the arguments the code gives it, the position (at)
\* of the loop that issued it, 0 outside a loop, and whether it succeeded
Op(op, at, arg, ok) ==
    [op |-> op, at |-> at, arg |-> arg, ok |-> ok]

\* one external operation whose result the code drops
Try(op, at, arg) ==
    [op |-> op, at |-> at, arg |-> arg]

(***************************************************************************)
(* Verify (pointer receiver: its writes reach the driver's action).        *)
(***************************************************************************)
Verify ==
    /\ pc = "Verify"
    /\ LET v == VerifyResult(Partitions, Mountpoints, ImageSize, size)
       IN  /\ Partitions' = v.Partitions
           /\ Mountpoints' = v.Mountpoints
           /\ size' = v.size
           /\ Return("Verify", v.err)
    /\ UNCHANGED << PartitionType, ImageSize, usingLoop, context, machineArgs,
                    loopAttached, mounted, idx, fidx, log, gens, mkfsFailed >>

(***************************************************************************)
(* Provisioning.                                                           *)
(***************************************************************************)
\* PreMachine: m.CreateImage may fail
PreMachine ==
    /\ pc = "Pre"
    /\ \E ok \in BOOLEAN :
          /\ log' = Append(log, Op("CreateImage", 0, <<size>>, ok))
          /\ IF ok
             THEN /\ context' = [context EXCEPT !.image = sDevVda]
                  /\ machineArgs' = machineArgs \o <<"--internal-image", sDevVda>>
                  /\ Return("Pre", NoErr)
             ELSE /\ UNCHANGED << context, machineArgs >>
                  /\ Return("Pre", <<"CreateImage failed">>)
    /\ UNCHANGED << Partitions, Mountpoints, PartitionType, ImageSize, size, usingLoop,
                    loopAttached, mounted, idx, fidx, gens, mkfsFailed >>

\* what losetup -f --show prints for the loop device it attached
LosetupOutput ==
    sLoop0 \o sNl

\* the usingLoop of the driver's action after PreNoMachine set i.usingLoop = true:
\* PreNoMachine has a value receiver, so i is a copy that dies with the call
UsingLoopAfterPreNoMachine(old) ==
    LET i == [usingLoop |-> TRUE]
    IN  old

\* PreNoMachine: opening the file, resizing it or losetup may fail
PreNoMachine ==
    /\ pc = "Pre"
    /\ \E outcome \in {"open", "truncate", "losetup", "ok"} :
          /\ log' = log \o
                 (CASE outcome = "open" -> <<Op("OpenFile", 0, << >>, FALSE)>>
                    [] outcome = "truncate" ->
                         <<Op("OpenFile", 0, << >>, TRUE), Op("Truncate", 0, <<size>>, FALSE)>>
                    [] outcome = "losetup" ->
                         <<Op("OpenFile", 0, << >>, TRUE), Op("Truncate", 0, <<size>>, TRUE),
                           Op("losetup", 0, << >>, FALSE)>>
                    [] outcome = "ok" ->
                         <<Op("OpenFile", 0, << >>, TRUE), Op("Truncate", 0, <<size>>, TRUE),
                           Op("losetup", 0, << >>, TRUE)>>)
          /\ IF outcome = "ok"
             THEN /\ context' = [context EXCEPT !.image = TrimSpace(LosetupOutput)]
                  /\ usingLoop' = UsingLoopAfterPreNoMachine(usingLoop)
                  /\ loopAttached' = TRUE
                  /\ Return("Pre", NoErr)
             ELSE /\ UNCHANGED << context, usingLoop, loopAttached >>
                  /\ Return("Pre", CASE outcome = "open" -> <<"Couldn't open image file">>
                                     [] outcome = "truncate" -> <<"Couldn't resize image file">>
                                     [] outcome = "losetup" -> <<"Failed to setup loop device">>)
    /\ UNCHANGED << Partitions, Mountpoints, PartitionType, ImageSize, size, machineArgs,
                    mounted, idx, fidx, gens, mkfsFailed >>

(***************************************************************************)
(* Run (value receiver; the Partitions slice still shares its array with   *)
(* the driver's action, so the FSUUID written through p is kept).          *)
(***************************************************************************)
CommandErr(what) ==
    <<"command failed", what>>

\* parted -s <image> mklabel <PartitionType>
RunMklabel ==
    /\ pc = "Run"
    /\ \E ok \in BOOLEAN :
          /\ log' = Append(log, Op("mklabel", 0, <<context.image, PartitionType>>, ok))
          /\ IF ~ok THEN Return("Run", CommandErr("mklabel")) /\ idx' = idx
             ELSE /\ ret' = ret
                  /\ IF Len(Partitions) = 0
                     THEN pc' = "mntdir" /\ idx' = idx
                     ELSE pc' = "mkpart" /\ idx' = 1
    /\ UNCHANGED << Partitions, Mountpoints, PartitionType, ImageSize, size, usingLoop,
                    context, machineArgs, loopAttached, mounted, fidx, gens, mkfsFailed >>

\* parted -a none -s <image> mkpart <name> <FS> <Start> <End>
RunMkpart ==
    /\ pc = "mkpart"
    /\ LET p == Partitions[idx]
       IN  \E ok \in BOOLEAN :
              /\ log' = Append(log, Op("mkpart", idx,
                            <<context.image, MkpartName(PartitionType, p), p.FS,
                              p.Start, p.End>>, ok))
              /\ IF ~ok THEN Return("Run", CommandErr("mkpart")) /\ fidx' = fidx
                 ELSE /\ ret' = ret
                      /\ IF p.Flags # << >>
                         THEN pc' = "set" /\ fidx' = 1
                         ELSE pc' = "mkfs" /\ fidx' = fidx
    /\ UNCHANGED << Partitions, Mountpoints, PartitionType, ImageSize, size, usingLoop,
                    context, machineArgs, loopAttached, mounted, idx, gens, mkfsFailed >>

\* parted -s <image> set <number> <flag> on
RunSetFlag ==
    /\ pc = "set"
    /\ LET p == Partitions[idx]
       IN  \E ok \in BOOLEAN :
              /\ log' = Append(log, Op("set", idx,
                            <<context.image, Itoa(p.number), p.Flags[fidx]>>, ok))
              /\ IF ~ok THEN Return("Run", CommandErr("set")) /\ fidx' = fidx
                 ELSE /\ ret' = ret
                      /\ IF fidx < Len(p.Flags)
                         THEN pc' = "set" /\ fidx' = fidx + 1
                         ELSE pc' = "mkfs" /\ fidx' = fidx
    /\ UNCHANGED << Partitions, Mountpoints, PartitionType, ImageSize, size, usingLoop,
                    context, machineArgs, loopAttached, mounted, idx, gens, mkfsFailed >>

\* what formatPartition does with the error of the mkfs command: the call is
\* a statement, its result is dropped
MkfsErr(ok) ==
    NoErr

\* formatPartition, first half: the mkfs command
RunMkfs ==
    /\ pc = "mkfs"
    /\ LET p == Partitions[idx]
           path == getPartitionDevice(p.number, context)
       IN  \E ok \in BOOLEAN :
              /\ log' = Append(log, Try("mkfs", idx, MkfsCmdline(p, path)))
              /\ mkfsFailed' = (mkfsFailed \/ ~ok)
              /\ IF MkfsErr(ok) # NoErr
                 THEN Return("Run", MkfsErr(ok))
                 ELSE pc' = "blkid" /\ ret' = ret
    /\ UNCHANGED << Partitions, Mountpoints, PartitionType, ImageSize, size, usingLoop,
                    context, machineArgs, loopAttached, mounted, idx, fidx, gens >>

\* what blkid -o value -s UUID can print for a device when it exits with 0: the UUID
\* of the filesystem on it (here U and the last character of the device path) and a
\* newline, or nothing but the newline
DeviceUUID(path) ==
    <<"U", path[Len(path)]>>

BlkidOutputs(path) ==
    { DeviceUUID(path) \o sNl, sNl }

\* what formatPartition stores and returns for the output of a successful blkid
ProbedUUID(out) ==
    [FSUUID |-> TrimSpace(out), err |-> NoErr]

\* formatPartition, second half: the UUID probe; then the next partition
RunBlkid ==
    /\ pc = "blkid"
    /\ LET p == Partitions[idx]
           path == getPartitionDevice(p.number, context)
       IN  \/ /\ log' = Append(log, Op("blkid", idx, <<path>>, FALSE))
              /\ Return("Run", <<"Failed to get uuid">>)
              /\ UNCHANGED << Partitions, idx, mkfsFailed >>
           \/ \E out \in BlkidOutputs(path) :
                 /\ log' = Append(log, Op("blkid", idx, <<path>>, TRUE))
                 /\ Partitions' = [Partitions EXCEPT ![idx].FSUUID = ProbedUUID(out).FSUUID]
                 /\ IF ProbedUUID(out).err # NoErr
                    THEN Return("Run", ProbedUUID(out).err) /\ idx' = idx
                    ELSE /\ ret' = ret
                         /\ IF idx < Len(Partitions)
                            THEN pc' = "mkpart" /\ idx' = idx + 1
                            ELSE pc' = "mntdir" /\ idx' = idx
    /\ UNCHANGED << Mountpoints, PartitionType, ImageSize, size, usingLoop, context,
                    machineArgs, loopAttached, mounted, fidx, gens, mkfsFailed >>

\* faulty variant of AfterMkdirMnt: the mount loop is skipped
AfterMkdirMntSkipsMounts(n) ==
    "gen"

\* where Run goes after creating the mount root: into the mount loop if there is
\* a mountpoint, else to the generators
AfterMkdirMnt(n) ==
    IF n = 0 THEN "gen" ELSE "mount"

\* context.imageMntDir = path.Join(context.scratchdir, "mnt"); os.MkdirAll
RunMkdirMnt ==
    /\ pc = "mntdir"
    /\ context' = [context EXCEPT !.imageMntDir = PathJoin(context.scratchdir, sMnt)]
    /\ pc' = AfterMkdirMnt(Len(Mountpoints))
    /\ idx' = IF Len(Mountpoints) = 0 THEN idx ELSE 1
    /\ UNCHANGED << Partitions, Mountpoints, PartitionType, ImageSize, size, usingLoop,
                    machineArgs, loopAttached, mounted, fidx, ret, log, gens, mkfsFailed >>

\* faulty variant of MountPath: every mountpoint is mounted on the mount root
MountPathRoot(ctx, m) ==
    ctx.imageMntDir

\* the path Run mounts, and Cleanup unmounts, mountpoint m on
MountPath(ctx, m) ==
    PathJoin(ctx.imageMntDir, m.Mountpoint)

\* os.MkdirAll(mntpath); syscall.Mount(dev, mntpath, fs, 0, "")
RunMount ==
    /\ pc = "mount"
    /\ LET m == Mountpoints[idx]
           p == Partitions[m.part]
           dev == getPartitionDevice(p.number, context)
           mntpath == MountPath(context, m)
       IN  \E ok \in BOOLEAN :
              /\ log' = Append(log, Op("mount", idx, <<dev, mntpath, MountFS(p.FS)>>, ok))
              /\ IF ~ok
                 THEN /\ Return("Run", <<"mount failed", p.Name>>)
                      /\ UNCHANGED << mounted, idx >>
                 ELSE /\ mounted' = Append(mounted, mntpath)
                      /\ ret' = ret
                      /\ IF idx < Len(Mountpoints)
                         THEN pc' = "mount" /\ idx' = idx + 1
                         ELSE pc' = "gen" /\ idx' = idx
    /\ UNCHANGED << Partitions, Mountpoints, PartitionType, ImageSize, size, usingLoop,
                    context, machineArgs, loopAttached, fidx, gens, mkfsFailed >>

\* one call of an artifact generator: the context before and after, the error
Gen(fn, before, r) ==
    [fn |-> fn, before |-> before, after |-> r.context, err |-> r.err]

\* the end of Run: generateFSTab, then generateKernelRoot
RunGenerate ==
    /\ pc = "gen"
    /\ LET f == generateFSTab(Mountpoints, Partitions, context)
           k == generateKernelRoot(Mountpoints, Partitions, f.context)
       IN  IF f.err # NoErr
           THEN /\ context' = f.context
                /\ gens' = Append(gens, Gen("generateFSTab", context, f))
                /\ log' = Append(log, Try("generateFSTab", 0, << >>))
                /\ Return("Run", f.err)
           ELSE /\ context' = k.context
                /\ gens' = gens \o << Gen("generateFSTab", context, f),
                                      Gen("generateKernelRoot", f.context, k) >>
                /\ log' = log \o << Try("generateFSTab", 0, << >>),
                                    Try("generateKernelRoot", 0, << >>) >>
                /\ Return("Run", k.err)
    /\ UNCHANGED << Partitions, Mountpoints, PartitionType, ImageSize, size, usingLoop,
                    machineArgs, loopAttached, mounted, idx, fidx, mkfsFailed >>

(***************************************************************************)
(* Cleanup (value receiver, context by value: it only reads).              *)
(***************************************************************************)
\* the mount table after a successful unmount of path: its newest mount goes
RECURSIVE Unmounted(_, _)
Unmounted(tab, path) ==
    IF tab = << >> THEN tab
    ELSE IF tab[Len(tab)] = path THEN SubSeq(tab, 1, Len(tab) - 1)
    ELSE Append(Unmounted(SubSeq(tab, 1, Len(tab) - 1), path), tab[Len(tab)])

\* faulty variant of CleanupOrder: the loop runs forward
CleanupOrderForward(mps) ==
    [j \in 1..Len(mps) |-> j]

\* the unmounts Cleanup attempts, in the order it attempts them:
\* for idx := len(i.Mountpoints) - 1; idx >= 0; idx--
CleanupOrder(mps) ==
    [j \in 1..Len(mps) |-> Len(mps) + 1 - j]

\* faulty variant of CleanupUnmounts: the loop index is not decremented
CleanupUnmountsLastOnly(mps, ctx) ==
    [j \in 1..Len(mps) |->
        Try("umount", Len(mps), <<MountPath(ctx, mps[Len(mps)])>>)]

CleanupUnmounts(mps, ctx) ==
    [j \in 1..Len(mps) |->
        Try("umount", CleanupOrder(mps)[j], <<MountPath(ctx, mps[CleanupOrder(mps)[j]])>>)]

\* the mount table after the first n unmounts of us, outcome telling which succeed
RECURSIVE AfterUnmounts(_, _, _, _)
AfterUnmounts(us, n, outcome, tab) ==
    IF n = 0 THEN tab
    ELSE LET before == AfterUnmounts(us, n - 1, outcome, tab)
         IN  IF outcome[n] THEN Unmounted(before, us[n].arg[1]) ELSE before

\* the detach of Cleanup: losetup -d <image> if i.usingLoop
CleanupDetach(loop, ctx) ==
    IF loop THEN <<Try("losetup -d", 0, <<ctx.image>>)>> ELSE << >>

\* Cleanup: the unmounts, then the detach, the result of each dropped; return nil
Cleanup ==
    /\ pc = "Cleanup"
    /\ log' = log \o CleanupUnmounts(Mountpoints, context) \o CleanupDetach(usingLoop, context)
    /\ \E outcome \in [1..Len(Mountpoints) -> BOOLEAN] :
          mounted' = AfterUnmounts(CleanupUnmounts(Mountpoints, context),
                                   Len(Mountpoints), outcome, mounted)
    /\ IF usingLoop
       THEN \E detached \in BOOLEAN :
               loopAttached' = IF detached THEN FALSE ELSE loopAttached
       ELSE loopAttached' = loopAttached
    /\ Return("Cleanup", NoErr)
    /\ UNCHANGED << Partitions, Mountpoints, PartitionType, ImageSize, size, usingLoop,
                    context, machineArgs, idx, fidx, gens, mkfsFailed >>

Next ==
    \/ Verify
    \/ PreMachine
    \/ PreNoMachine
    \/ RunMklabel
    \/ RunMkpart
    \/ RunSetFlag
    \/ RunMkfs
    \/ RunBlkid
    \/ RunMkdirMnt
    \/ RunMount
    \/ RunGenerate
    \/ Cleanup

Spec ==
    Init /\ [][Next]_vars

(***************************************************************************)
(* The artifact generators on their own: every resolved model Verify can   *)
(* leave, with any pattern of probed and missing UUIDs and any earlier     *)
(* content of the context's outputs, and any sequence of generator calls.  *)
(***************************************************************************)
OldFSTab ==
    sUuidEq \o sOld \o sTab \o sSlash \o sTab \o sExt4 \o sTab \o sDefaults \o sTail

OldKernelRoot ==
    sRootUuidEq \o sOld

InitGen ==
    /\ \E ps \in SeqsUpTo(PartitionPool, MaxParts), ms \in SeqsUpTo(MountpointPool, MaxMounts) :
          LET v == VerifyResult(ps, ms, "1GiB", 0)
          IN  /\ v.err = NoErr
              /\ \E probed \in [1..Len(ps) -> BOOLEAN] :
                    Partitions = [k \in 1..Len(ps) |->
                        [v.Partitions[k] EXCEPT !.FSUUID =
                            IF probed[k] THEN <<"U">> \o Itoa(k) ELSE sEmpty]]
              /\ Mountpoints = v.Mountpoints
              /\ size = v.size
              /\ PartitionType = TableTypeOf(ps)
    /\ ImageSize = "1GiB"
    /\ usingLoop = FALSE
    /\ \E tab \in {sEmpty, OldFSTab}, kroot \in {sEmpty, OldKernelRoot} :
          context = [NewContext EXCEPT !.image = sDevVda,
                                       !.imageMntDir = PathJoin(sScratch, sMnt),
                                       !.imageFSTab = tab,
                                       !.imageKernelRoot = kroot]
    /\ machineArgs = << >>
    /\ loopAttached = FALSE
    /\ mkfsFailed = FALSE
    /\ mounted = << >>
    /\ pc = "Generators"
    /\ idx = 0
    /\ fidx = 0
    /\ ret = [Verify |-> NoErr, Pre |-> NoErr, Run |-> Pending, Cleanup |-> Pending]
    /\ log = << >>
    /\ gens = << >>

CallGenerateFSTab ==
    /\ pc = "Generators"
    /\ Len(gens) < MaxCalls
    /\ LET f == generateFSTab(Mountpoints, Partitions, context)
       IN  /\ context' = f.context
           /\ gens' = Append(gens, Gen("generateFSTab", context, f))
    /\ UNCHANGED << Partitions, Mountpoints, PartitionType, ImageSize, size, usingLoop,
                    machineArgs, loopAttached, mkfsFailed, mounted, pc, idx, fidx, ret,
                    log >>

CallGenerateKernelRoot ==
    /\ pc = "Generators"
    /\ Len(gens) < MaxCalls
    /\ LET k == generateKernelRoot(Mountpoints, Partitions, context)
       IN  /\ context' = k.context
           /\ gens' = Append(gens, Gen("generateKernelRoot", context, k))
    /\ UNCHANGED << Partitions, Mountpoints, PartitionType, ImageSize, size, usingLoop,
                    machineArgs, loopAttached, mkfsFailed, mounted, pc, idx, fidx, ret,
                    log >>

NextGen ==
    \/ CallGenerateFSTab
    \/ CallGenerateKernelRoot

SpecGen ==
    InitGen /\ [][NextGen]_vars

(***************************************************************************)
(* Vocabulary of the properties.                                           *)
(***************************************************************************)
Returned(handler) ==
    ret[handler] # Pending

Failed(handler) ==
    Returned(handler) /\ ret[handler] # NoErr

TableOps == {"mklabel", "mkpart", "set"}

FormatOps == {"mkfs", "blkid"}

GeneratorOps == {"generateFSTab", "generateKernelRoot"}

ConstructionOps == TableOps \cup FormatOps \cup {"mount"} \cup GeneratorOps

\* the positions of the log holding an operation of one of the kinds
At(kinds) ==
    {j \in 1..Len(log) : log[j].op \in kinds}

\* the mounts of Run that succeeded, oldest first
SuccessfulMounts ==
    SelectSeq(log, LAMBDA e : e.op = "mount" /\ e.ok)

HostPathUsed ==
    \E j \in At({"losetup"}) : log[j].ok

MachinePathUsed ==
    \E j \in At({"CreateImage"}) : log[j].ok

\* some mountpoint names a partition that is not declared
Unresolvable ==
    \E k \in 1..Len(Mountpoints) :
        \A j \in 1..Len(Partitions) : Partitions[j].Name # Mountpoints[k].Partition

\* strings.Split(s, c) for a one-character separator
RECURSIVE Split(_, _)
Split(s, c) ==
    IF \A i \in 1..Len(s) : s[i] # c THEN <<s>>
    ELSE LET i == CHOOSE i \in 1..Len(s) : s[i] = c /\ \A j \in 1..(i - 1) : s[j] # c
         IN  <<SubSeq(s, 1, i - 1)>> \o Split(SubSeq(s, i + 1, Len(s)), c)

\* what is expected of the generateKernelRoot call g when mountpoint k decides it
KernelRootFrom(g, k) ==
    LET u == Partitions[Mountpoints[k].part].FSUUID
    IN  IF u # sEmpty
        THEN g.err = NoErr /\ g.after.imageKernelRoot = sRootUuidEq \o u
        ELSE g.err # NoErr /\ g.after.imageKernelRoot = g.before.imageKernelRoot

\* no mountpoint is mounted on "/"
NoRootMountpoint ==
    \A k \in 1..Len(Mountpoints) : Mountpoints[k].Mountpoint # sSlash

\* the device an entry of the log names: the last argument of mkfs, the first
\* of blkid and of mount
DeviceOf(e) ==
    IF e.op = "mkfs" THEN e.arg[4] ELSE e.arg[1]

\* the declared partition an entry of the log is about
PartitionOf(e) ==
    IF e.op = "mount" THEN Mountpoints[e.at].part ELSE e.at

(***************************************************************************)
(* C1: once Cleanup has returned, the unmounts it attempted for the        *)
(* mountpoints Run mounted are, in order, the mounts of Run reversed: same *)
(* mountpoints, same paths, last mounted first.                            *)
(***************************************************************************)
C1_ReverseUnmountOrder ==
    Returned("Cleanup") =>
        LET ms == SuccessfulMounts
            us == SelectSeq(log, LAMBDA e :
                      e.op = "umount" /\ \E j \in 1..Len(ms) : ms[j].at = e.at)
        IN  /\ Len(us) = Len(ms)
            /\ \A j \in 1..Len(us) :
                  /\ us[j].at = ms[Len(ms) + 1 - j].at
                  /\ us[j].arg[1] = ms[Len(ms) + 1 - j].arg[2]

C1_Witness ==
    /\ Returned("Cleanup")
    /\ Len(SuccessfulMounts) >= 2
    /\ SuccessfulMounts[1].arg[2] # SuccessfulMounts[2].arg[2]

(***************************************************************************)
(* C2: once Cleanup has returned, if PreNoMachine attached a loop device   *)
(* the log holds a detach of that device after every unmount, and if       *)
(* PreMachine provisioned the image the log holds no detach.               *)
(***************************************************************************)
C2_DetachAfterUnmounts ==
    Returned("Cleanup") =>
        /\ HostPathUsed =>
              \E d \in At({"losetup -d"}) :
                  /\ log[d].arg = <<context.image>>
                  /\ \A u \in At({"umount"}) : u < d
        /\ MachinePathUsed => At({"losetup -d"}) = {}

(***************************************************************************)
(* C3: whenever a command of Run has failed (mklabel, mkpart, set, mkfs or *)
(* blkid), Run has returned an error and the failed command is the last    *)
(* construction step in the log.                                           *)
(***************************************************************************)
C3_ToolFailureFatal ==
    /\ \A j \in At({"mklabel", "mkpart", "set", "blkid"}) :
          ~log[j].ok => /\ Failed("Run")
                        /\ \A l \in At(ConstructionOps) : l <= j
    /\ mkfsFailed => /\ Failed("Run")
                     /\ \A l \in At(ConstructionOps) :
                           \E j \in At({"mkfs"}) : l <= j

(***************************************************************************)
(* C4, as claimed: every table command (mklabel, mkpart of all partitions, *)
(* set) precedes the first mkfs, every table and format command precedes   *)
(* the first mount, every mount precedes the generators.                   *)
(***************************************************************************)
C4_PhasesSequential ==
    /\ \A t \in At(TableOps), f \in At(FormatOps) : t < f
    /\ \A f \in At({"mkfs"}), k \in 1..Len(Partitions) :
          \E t \in At({"mkpart"}) : log[t].at = k /\ t < f
    /\ \A x \in At(TableOps \cup FormatOps), m \in At({"mount"}) : x < m
    /\ \A m \in At({"mount"}), g \in At(GeneratorOps) : m < g

(***************************************************************************)
(* C4, amended: mklabel comes first; table construction and formatting are *)
(* interleaved per partition: the mkpart and every set of a partition      *)
(* precede its mkfs, and the mkfs and blkid of a partition precede every    *)
(* table command of a later partition; the formatting of all partitions    *)
(* precedes the first mount; the mounts of all mountpoints precede the     *)
(* generators.                                                             *)
(***************************************************************************)
C4_PhasesPerPartition ==
    /\ \A x \in At(ConstructionOps \ {"mklabel"}) : \E l \in At({"mklabel"}) : l < x
    /\ \A f \in At({"mkfs"}) :
          LET k == log[f].at
          IN  /\ \E t \in At({"mkpart"}) : log[t].at = k /\ t < f
              /\ Cardinality({t \in At({"set"}) : log[t].at = k /\ t < f})
                     = Len(Partitions[k].Flags)
              /\ \A t \in At({"mkpart", "set"}) : log[t].at = k => t < f
    /\ \A f \in At(FormatOps), t \in At({"mkpart", "set"}) :
          log[f].at < log[t].at => f < t
    /\ \A m \in At({"mount"}) :
          /\ \A x \in At(TableOps \cup FormatOps) : x < m
          /\ \A k \in 1..Len(Partitions) :
                \E b \in At({"blkid"}) : log[b].at = k /\ log[b].ok /\ b < m
    /\ \A g \in At(GeneratorOps) :
          /\ \A m \in At({"mount"}) : m < g
          /\ \A k \in 1..Len(Mountpoints) :
                \E m \in At({"mount"}) : log[m].at = k /\ log[m].ok /\ m < g

C4_Witness ==
    /\ ret.Run = NoErr
    /\ Len(Partitions) >= 2
    /\ At({"set"}) # {}
    /\ At({"mount"}) # {}

(***************************************************************************)
(* C5: when some mountpoint names a partition that is not declared, Verify *)
(* returns an error and no partitioning, formatting, mounting or           *)
(* generation step is ever in the log, nor anything mounted.               *)
(***************************************************************************)
C5_UnresolvedNeverBuilt ==
    Unresolvable =>
        /\ pc # "Verify" => Failed("Verify")
        /\ At(ConstructionOps) = {}
        /\ mounted = << >>

C5_Witness ==
    /\ Unresolvable
    /\ pc = "Stopped"
    /\ Failed("Verify")
    /\ ret.Verify[1] = "Couldn't fount partition for"
    /\ Len(Partitions) >= 1

(***************************************************************************)
(* C6: from the moment Verify has succeeded, in every later state of the   *)
(* lifecycle, the k-th declared partition has ordinal k, so the ordinals   *)
(* are exactly 1..N.                                                        *)
(***************************************************************************)
C6_OrdinalsDense ==
    ret.Verify = NoErr =>
        /\ \A k \in 1..Len(Partitions) : Partitions[k].number = k
        /\ {Partitions[k].number : k \in 1..Len(Partitions)} = 1..Len(Partitions)

C6_Witness ==
    /\ pc = "Done"
    /\ ret.Run = NoErr
    /\ Len(Partitions) >= 2

(***************************************************************************)
(* C7: whenever the UUID probe of a partition has failed, or has left the  *)
(* partition's UUID empty, Run has returned an error and nothing was       *)
(* mounted.                                                                *)
(***************************************************************************)
C7_UUIDFailureFatal ==
    \A b \in At({"blkid"}) :
        (~log[b].ok \/ Partitions[log[b].at].FSUUID = sEmpty) =>
            /\ Failed("Run")
            /\ At({"mount"}) = {}

(***************************************************************************)
(* C8: when Run has succeeded the fstab buffer is one newline-terminated   *)
(* line per mountpoint, in declaration order; the fields of the line of a  *)
(* mountpoint are separated by tabs, the first is UUID= and the UUID of    *)
(* the device of the bound partition, probed with success after the mkfs   *)
(* of that device, the second is the mount path, and the fourth is         *)
(* defaults and the declared options, separated by commas.                 *)
(***************************************************************************)
C8_FSTabContent ==
    ret.Run = NoErr =>
        LET pieces == Split(context.imageFSTab, "\n")
        IN  /\ pieces[Len(pieces)] = sEmpty
            /\ Len(pieces) = Len(Mountpoints) + 1
            /\ \A k \in 1..Len(Mountpoints) :
                  LET field == Split(pieces[k], "\t")
                      m == Mountpoints[k]
                      dev == getPartitionDevice(Partitions[m.part].number, context)
                  IN  /\ Len(field) = 6
                      /\ DeviceUUID(dev) # sEmpty
                      /\ field[1] = sUuidEq \o DeviceUUID(dev)
                      /\ \E f \in At({"mkfs"}), b \in At({"blkid"}) :
                            /\ log[f].arg[4] = dev
                            /\ log[b].arg = <<dev>>
                            /\ log[b].ok
                            /\ f < b
                      /\ field[2] = m.Mountpoint
                      /\ Split(field[4], ",") = <<sDefaults>> \o m.Options

C8_Witness ==
    /\ ret.Run = NoErr
    /\ Len(Mountpoints) >= 2
    /\ Mountpoints[1].part # Mountpoints[2].part
    /\ \E k \in 1..Len(Mountpoints) : Len(Mountpoints[k].Options) >= 2

(***************************************************************************)
(* C9: of two calls of generateFSTab in a row, the second leaves the fstab *)
(* buffer as the first left it, whatever the buffer held before the first. *)
(***************************************************************************)
C9_FSTabIdempotent ==
    \A j \in 1..(Len(gens) - 1) :
        (gens[j].fn = "generateFSTab" /\ gens[j + 1].fn = "generateFSTab") =>
            gens[j + 1].after.imageFSTab = gens[j].after.imageFSTab

C9_Witness ==
    \E j \in 1..(Len(gens) - 1) :
        /\ gens[j].fn = "generateFSTab"
        /\ gens[j + 1].fn = "generateFSTab"
        /\ gens[j].before.imageFSTab # sEmpty
        /\ gens[j].after.imageFSTab # sEmpty
        /\ gens[j].after.imageFSTab # gens[j].before.imageFSTab

(***************************************************************************)
(* C10, as claimed: after a call of generateKernelRoot, for any mountpoint *)
(* on "/", if the UUID u of its partition is not empty the kernel root is  *)
(* root=UUID=u, and if it is empty the call returned an error and left the *)
(* kernel root as it was.                                                  *)
(***************************************************************************)
C10_KernelRootOfAnyRoot ==
    \A j \in 1..Len(gens) :
        gens[j].fn = "generateKernelRoot" =>
            \A k \in 1..Len(Mountpoints) :
                Mountpoints[k].Mountpoint = sSlash => KernelRootFrom(gens[j], k)

(***************************************************************************)
(* C10, amended: the same of the first mountpoint on "/" in declaration    *)
(* order.                                                                  *)
(***************************************************************************)
C10_KernelRootOfFirstRoot ==
    \A j \in 1..Len(gens) :
        gens[j].fn = "generateKernelRoot" =>
            \A k \in 1..Len(Mountpoints) :
                (/\ Mountpoints[k].Mountpoint = sSlash
                 /\ \A l \in 1..(k - 1) : Mountpoints[l].Mountpoint # sSlash)
                    => KernelRootFrom(gens[j], k)

C10_Witness ==
    \E j \in 1..Len(gens) :
        /\ gens[j].fn = "generateKernelRoot"
        /\ gens[j].err = NoErr
        /\ gens[j].before.imageKernelRoot = OldKernelRoot
        /\ gens[j].after.imageKernelRoot # OldKernelRoot
        /\ Len(Mountpoints) >= 2
        /\ Mountpoints[1].Mountpoint = sSlash
        /\ Mountpoints[2].Mountpoint = sSlash
        /\ Mountpoints[1].part # Mountpoints[2].part

(***************************************************************************)
(* C11, as claimed: after a call of generateKernelRoot on a model with no  *)
(* mountpoint on "/", the call returned no error and the kernel-root       *)
(* string of the context is empty, whatever it held at entry.              *)
(***************************************************************************)
C11_KernelRootEmptyWithoutRoot ==
    \A j \in 1..Len(gens) :
        (gens[j].fn = "generateKernelRoot" /\ NoRootMountpoint) =>
            /\ gens[j].err = NoErr
            /\ gens[j].after.imageKernelRoot = sEmpty

(***************************************************************************)
(* C11, amended: after a call of generateKernelRoot on a model with no     *)
(* mountpoint on "/", the call returned no error and the context, its      *)
(* kernel-root string included, is as it was at entry.                     *)
(***************************************************************************)
C11_KernelRootKeptWithoutRoot ==
    \A j \in 1..Len(gens) :
        (gens[j].fn = "generateKernelRoot" /\ NoRootMountpoint) =>
            /\ gens[j].err = NoErr
            /\ gens[j].after = gens[j].before

C11_Witness ==
    \E j \in 1..Len(gens) :
        /\ gens[j].fn = "generateKernelRoot"
        /\ NoRootMountpoint
        /\ Len(Mountpoints) >= 1
        /\ gens[j].before.imageKernelRoot = OldKernelRoot

(***************************************************************************)
(* C12: every device path Run passes to mkfs, blkid and mount is the image *)
(* device followed by p and the ordinal of the partition when the image    *)
(* device ends in a digit, and by the ordinal alone otherwise (/dev/vda, 2 *)
(* gives /dev/vda2; /dev/loop0, 1 gives /dev/loop0p1); and the device of   *)
(* every mount is the device of an earlier mkfs and of a later successful  *)
(* blkid of the partition the mountpoint is bound to.                      *)
(***************************************************************************)
C12_DevicePaths ==
    \A j \in At({"mkfs", "blkid", "mount"}) :
        LET d == context.image
            n == Partitions[PartitionOf(log[j])].number
            dev == DeviceOf(log[j])
            ordinal == <<Digits[n + 1]>>
        IN  /\ d # sEmpty
            /\ n \in 1..9
            /\ dev = IF d[Len(d)] \in {"0", "1", "2", "3", "4", "5", "6", "7", "8", "9"}
                     THEN d \o <<"p">> \o ordinal
                     ELSE d \o ordinal
            /\ (d = sDevVda /\ n = 2) =>
                   dev = <<"/", "d", "e", "v", "/", "v", "d", "a", "2">>
            /\ (d = sLoop0 /\ n = 1) =>
                   dev = <<"/", "d", "e", "v", "/", "l", "o", "o", "p", "0", "p", "1">>
            /\ log[j].op = "mount" =>
                   \E f \in At({"mkfs"}), b \in At({"blkid"}) :
                       /\ f < b /\ b < j
                       /\ log[f].at = PartitionOf(log[j])
                       /\ log[b].at = PartitionOf(log[j])
                       /\ DeviceOf(log[f]) = dev
                       /\ DeviceOf(log[b]) = dev
                       /\ log[b].ok

C12_Witness ==
    /\ context.image = sLoop0
    /\ \E j \in At({"mount"}) :
          /\ log[j].ok
          /\ Partitions[PartitionOf(log[j])].number = 2
    /\ \E j \in At({"mount"}) : Partitions[PartitionOf(log[j])].number = 1

(***************************************************************************)
(* C13: every mount of Run names the filesystem type vfat when the tag of  *)
(* the bound partition is fat32, and the tag of the bound partition itself *)
(* otherwise.                                                              *)
(***************************************************************************)
C13_MountType ==
    \A j \in At({"mount"}) :
        LET p == Partitions[PartitionOf(log[j])]
        IN  log[j].arg[3] = IF p.FS = sFat32 THEN sVfat ELSE p.FS

C13_Witness ==
    /\ \E j \in At({"mount"}) :
          log[j].ok /\ Partitions[PartitionOf(log[j])].FS = sFat32
    /\ \E j \in At({"mount"}) :
          log[j].ok /\ Partitions[PartitionOf(log[j])].FS = sExt4

(***************************************************************************)
(* C14: once Verify has returned, it returned an error exactly when some   *)
(* partition has an empty name, start, end or filesystem type, or some     *)
(* mountpoint names no declared partition, or the size string does not     *)
(* parse; when it returned no error every partition has the four fields    *)
(* non-empty and every mountpoint is bound to a declared partition of the  *)
(* name it references; and at its return no operation has been issued, no  *)
(* mount or loop device exists and the context is as the pipeline made it. *)
(***************************************************************************)
C14_VerifyDecides ==
    Returned("Verify") =>
        LET incomplete(p) ==
                p.Name = sEmpty \/ p.Start = sEmpty \/ p.End = sEmpty \/ p.FS = sEmpty
            badPartition == \E k \in 1..Len(Partitions) : incomplete(Partitions[k])
            badSize == FromHumanSize(ImageSize).err # NoErr
        IN  /\ Failed("Verify") <=> (badPartition \/ Unresolvable \/ badSize)
            /\ ret.Verify = NoErr =>
                  /\ \A k \in 1..Len(Partitions) : ~incomplete(Partitions[k])
                  /\ \A k \in 1..Len(Mountpoints) :
                        /\ Mountpoints[k].part \in 1..Len(Partitions)
                        /\ Partitions[Mountpoints[k].part].Name = Mountpoints[k].Partition
            /\ (pc = "Pre" \/ (pc = "Stopped" /\ Failed("Verify"))) =>
                  /\ log = << >>
                  /\ mounted = << >>
                  /\ ~loopAttached
                  /\ machineArgs = << >>
                  /\ context = NewContext

C14_Witness ==
    /\ pc = "Stopped"
    /\ Failed("Verify")
    /\ ret.Verify[1] = "Failed to parse image size"
    /\ Len(Partitions) >= 2
    /\ Len(Mountpoints) >= 1
    /\ log = << >>

(***************************************************************************)
(* C15: once Cleanup has returned it has returned no error, and it has     *)
(* attempted exactly one unmount for every mountpoint, whichever of the    *)
(* unmounts failed.                                                        *)
(***************************************************************************)
C15_CleanupBestEffort ==
    Returned("Cleanup") =>
        /\ ret.Cleanup = NoErr
        /\ pc = "Done"
        /\ Cardinality(At({"umount"})) = Len(Mountpoints)
        /\ \A k \in 1..Len(Mountpoints) :
              \E u \in At({"umount"}) :
                  /\ log[u].at = k
                  /\ log[u].arg = <<PathJoin(context.imageMntDir, Mountpoints[k].Mountpoint)>>

\* both mountpoints were mounted, the unmount attempted first (of the second
\* mountpoint) failed and the one attempted after it succeeded
C15_Witness ==
    /\ Returned("Cleanup")
    /\ Len(SuccessfulMounts) = 2
    /\ SuccessfulMounts[1].arg[2] # SuccessfulMounts[2].arg[2]
    /\ mounted = <<SuccessfulMounts[2].arg[2]>>

(***************************************************************************)
(* C16: mklabel is the first command of Run and is issued once; the k-th   *)
(* mkpart in the log is for the k-th declared partition, whose ordinal is  *)
(* k, with its filesystem type, start and end; every set comes after the   *)
(* successful mkpart of its partition, names the ordinal of that partition *)
(* and one of its flags; and a failed mklabel, mkpart or set is the last   *)
(* command of Run.                                                         *)
(***************************************************************************)
C16_PartitioningMatchesNumbering ==
    LET mk == SelectSeq(log, LAMBDA e : e.op = "mkpart")
    IN  /\ Cardinality(At({"mklabel"})) <= 1
        /\ \A x \in At(ConstructionOps) : \E l \in At({"mklabel"}) : l <= x
        /\ \A k \in 1..Len(mk) :
              /\ mk[k].at = k
              /\ Partitions[mk[k].at].number = k
              /\ mk[k].arg[1] = context.image
              /\ mk[k].arg[3] = Partitions[k].FS
              /\ mk[k].arg[4] = Partitions[k].Start
              /\ mk[k].arg[5] = Partitions[k].End
        /\ \A t \in At({"set"}) :
              LET k == log[t].at
              IN  /\ \E c \in At({"mkpart"}) : c < t /\ log[c].at = k /\ log[c].ok
                  /\ Partitions[k].number = k
                  /\ log[t].arg[1] = context.image
                  /\ log[t].arg[2] = <<Digits[k + 1]>>
                  /\ \E f \in 1..Len(Partitions[k].Flags) :
                        log[t].arg[3] = Partitions[k].Flags[f]
        /\ \A j \in At(TableOps) :
              ~log[j].ok => \A l \in At(ConstructionOps) : l <= j

\* the second partition had a flag set, then the setting of its next flag failed
C16_Witness ==
    /\ Len(Partitions) = 2
    /\ \E t \in At({"set"}) : log[t].at = 2 /\ log[t].ok
    /\ \E t \in At({"set"}) : log[t].at = 2 /\ ~log[t].ok
    /\ Returned("Run")

(***************************************************************************)
(* C17: the mounts in the log are of the mountpoints 1, 2, ... in declared *)
(* order and only the last of them can have failed; when the mount of the  *)
(* k-th mountpoint has failed, Run has returned an error naming the bound  *)
(* partition, nothing of Run follows the failed mount, no generator was    *)
(* called and the fstab buffer and the kernel-root string are still empty, *)
(* and until Cleanup runs the mounts of mountpoints 1..k-1 are in place,   *)
(* each on its subdirectory of the mount root.                             *)
(***************************************************************************)
C17_MountFailureStops ==
    LET ms == SelectSeq(log, LAMBDA e : e.op = "mount")
    IN  /\ \A k \in 1..Len(ms) : ms[k].at = k /\ (k < Len(ms) => ms[k].ok)
        /\ \A j \in At({"mount"}) :
              ~log[j].ok =>
                  LET k == log[j].at
                  IN  /\ Failed("Run")
                      /\ ret.Run = <<"mount failed", Partitions[Mountpoints[k].part].Name>>
                      /\ \A l \in At(ConstructionOps) : l <= j
                      /\ gens = << >>
                      /\ context.imageFSTab = sEmpty
                      /\ context.imageKernelRoot = sEmpty
                      /\ pc = "Cleanup" =>
                            mounted = [i \in 1..(k - 1) |->
                                PathJoin(PathJoin(context.scratchdir, sMnt),
                                         Mountpoints[i].Mountpoint)]

\* the first mountpoint was mounted on /boot, the mount of the second failed
C17_Witness ==
    /\ pc = "Cleanup"
    /\ \E j \in At({"mount"}) : log[j].at = 2 /\ ~log[j].ok
    /\ Len(mounted) = 1
    /\ Mountpoints[1].Mountpoint = sSlashBoot

(***************************************************************************)
(* C18: from the moment Verify has succeeded, every mountpoint is bound to *)
(* the partition of lowest ordinal among those whose name is the name the  *)
(* mountpoint references, also when several partitions have that name.     *)
(***************************************************************************)
C18_FirstMatchWins ==
    ret.Verify = NoErr =>
        \A k \in 1..Len(Mountpoints) :
            LET b == Mountpoints[k].part
            IN  /\ b \in 1..Len(Partitions)
                /\ Partitions[b].Name = Mountpoints[k].Partition
                /\ Partitions[b].number = b
                /\ \A j \in 1..Len(Partitions) :
                      Partitions[j].Name = Mountpoints[k].Partition =>
                          Partitions[b].number <= Partitions[j].number

\* two partitions of one name, two mountpoints bound to the first of them
C18_Witness ==
    /\ ret.Verify = NoErr
    /\ Len(Partitions) = 2
    /\ Partitions[1].Name = Partitions[2].Name
    /\ Len(Mountpoints) = 2
    /\ Mountpoints[1].part = 1
    /\ Mountpoints[2].part = 1
    /\ Mountpoints[1] # Mountpoints[2]

(***************************************************************************)
(* C19: every unmount Cleanup attempts is of a path under the scratch      *)
(* mount root, and of a path on which Run mounted that mountpoint with     *)
(* success.                                                                *)
(***************************************************************************)
C19_CleanupReleasesOnlyAcquired ==
    \A u \in At({"umount"}) :
        LET path == log[u].arg[1]
            root == PathJoin(context.scratchdir, sMnt)
        IN  /\ \/ path = root
               \/ /\ Len(path) > Len(root) + 1
                  /\ SubSeq(path, 1, Len(root) + 1) = root \o <<"/">>
            /\ \E m \in At({"mount"}) :
                  /\ log[m].ok
                  /\ log[m].at = log[u].at
                  /\ log[m].arg[2] = path

(***************************************************************************)
(* C20: when Run has succeeded, the third field of the fstab line of every *)
(* mountpoint is the filesystem type Run mounted that mountpoint with.     *)
(***************************************************************************)
C20_FSTabTypeIsMountType ==
    ret.Run = NoErr =>
        \A k \in 1..Len(Mountpoints) :
            LET line == Split(context.imageFSTab, "\n")[k]
                field == Split(line, "\t")
            IN  \E m \in At({"mount"}) :
                    /\ log[m].at = k
                    /\ log[m].ok
                    /\ field[3] = log[m].arg[3]

====
